---------------------------- MODULE Spec2Model ----------------------------
(***************************************************************************)
(* Verification model of the Movement bridge bot:                          *)
(*   - auto-transaction-trigger.ts  (monitorAndTrigger, with the periodic  *)
(*     balance check) and its earlier variant without the balance check    *)
(*   - rate-limit-monitor.ts        (check / wait / monitor commands), in  *)
(*     the variant with parking-cut detection and the one without          *)
(*   - token-auto-transfer.ts       (ERC-20 sweep loop)                    *)
(* Every program is a single sequential async loop; the model has one      *)
(* action per code segment that ends in an await, a throw or an exit.      *)
(***************************************************************************)
EXTENDS Integers, Sequences, FiniteSets, TLC

-----------------------------------------------------------------------------
(***************************************************************************)
(* Exact arithmetic on JavaScript numbers.                                 *)
(*                                                                         *)
(* Chain amounts are in smallest units (8 decimals) and exceed 32 bits, so *)
(* naturals are kept as little-endian sequences of base-10^4 limbs with no *)
(* leading zero limb (<< >> is 0).  A finite non-negative IEEE-754 double  *)
(* is kept exactly as [m, k], meaning m / 2^k, in lowest terms.            *)
(***************************************************************************)
Base == 10^4

RECURSIVE BigTrim(_)
BigTrim(a) ==
    IF a = << >> THEN a
    ELSE IF a[Len(a)] = 0 THEN BigTrim(SubSeq(a, 1, Len(a) - 1)) ELSE a

RECURSIVE BigFromNat(_)
BigFromNat(n) == IF n = 0 THEN << >> ELSE <<n % Base>> \o BigFromNat(n \div Base)

\* a * f + c, for a factor f <= Base and a carry c < Base
RECURSIVE BigMulAdd(_, _, _)
BigMulAdd(a, f, c) ==
    IF a = << >> THEN BigFromNat(c)
    ELSE <<(a[1] * f + c) % Base>> \o BigMulAdd(Tail(a), f, (a[1] * f + c) \div Base)

BigMulSmall(a, f) == BigTrim(BigMulAdd(a, f, 0))
BigAddSmall(a, c) == BigTrim(BigMulAdd(a, 1, c))

\* quotient and remainder of a by a divisor f <= Base, r the incoming remainder
RECURSIVE BigDivRem(_, _, _)
BigDivRem(a, f, r) ==
    IF a = << >> THEN [q |-> << >>, r |-> r]
    ELSE LET cur  == r * Base + a[Len(a)]
             rest == BigDivRem(SubSeq(a, 1, Len(a) - 1), f, cur % f)
         IN  [q |-> rest.q \o <<cur \div f>>, r |-> rest.r]

BigDivSmall(a, f) == BigTrim(BigDivRem(a, f, 0).q)
BigModSmall(a, f) == BigDivRem(a, f, 0).r
BigOdd(a) == a # << >> /\ a[1] % 2 = 1

RECURSIVE BigCmpFrom(_, _, _)
BigCmpFrom(a, b, i) ==
    IF i = 0 THEN 0
    ELSE IF a[i] < b[i] THEN -1
    ELSE IF a[i] > b[i] THEN 1
    ELSE BigCmpFrom(a, b, i - 1)

\* -1, 0, 1 as a < b, a = b, a > b
BigCmp(a, b) ==
    IF Len(a) < Len(b) THEN -1
    ELSE IF Len(a) > Len(b) THEN 1
    ELSE BigCmpFrom(a, b, Len(a))

BigLt(a, b)  == BigCmp(a, b) < 0
BigLeq(a, b) == BigCmp(a, b) <= 0

\* a - b for a >= b, bw the incoming borrow
RECURSIVE BigSubBorrow(_, _, _)
BigSubBorrow(a, b, bw) ==
    IF a = << >> THEN << >>
    ELSE LET bi == IF b = << >> THEN 0 ELSE b[1]
             d  == a[1] - bi - bw
         IN  <<IF d < 0 THEN d + Base ELSE d>>
               \o BigSubBorrow(Tail(a), IF b = << >> THEN b ELSE Tail(b),
                               IF d < 0 THEN 1 ELSE 0)

BigSub(a, b) == BigTrim(BigSubBorrow(a, b, 0))

Min(x, y) == IF x < y THEN x ELSE y
Max(x, y) == IF x > y THEN x ELSE y

\* The shifts below go by chunks of at most 13 bits (2^13 < Base) or 4
\* decimal digits, which keeps every factor and divisor within one limb.
RECURSIVE BigMulPow2(_, _)
BigMulPow2(a, n) ==
    IF n = 0 THEN a
    ELSE LET c == Min(n, 13) IN BigMulPow2(BigMulSmall(a, 2^c), n - c)

\* floor(a / 2^n), and whether anything was cut off
RECURSIVE BigDivPow2(_, _)
BigDivPow2(a, n) ==
    IF n = 0 THEN [q |-> a, inexact |-> FALSE]
    ELSE LET c    == Min(n, 13)
             rest == BigDivPow2(BigDivSmall(a, 2^c), n - c)
         IN  [q |-> rest.q, inexact |-> rest.inexact \/ BigModSmall(a, 2^c) # 0]

RECURSIVE BigMulPow10(_, _)
BigMulPow10(a, n) ==
    IF n = 0 THEN a
    ELSE LET c == Min(n, 4) IN BigMulPow10(BigMulSmall(a, 10^c), n - c)

\* floor(a / 10^n), and whether anything was cut off
RECURSIVE BigDivPow10(_, _)
BigDivPow10(a, n) ==
    IF n = 0 THEN [q |-> a, inexact |-> FALSE]
    ELSE LET c    == Min(n, 4)
             rest == BigDivPow10(BigDivSmall(a, 10^c), n - c)
         IN  [q |-> rest.q, inexact |-> rest.inexact \/ BigModSmall(a, 10^c) # 0]

\* number of significant bits of a (0 for 0); numbers here stay below 2^127
PowersOfTwo == [i \in 0..127 |-> BigMulPow2(<<1>>, i)]
\* a number of L limbs lies in [2^(13(L-1)), 2^(14L)), as 2^13 < Base < 2^14
BitLen(a) ==
    IF a = << >> THEN 0
    ELSE LET lo == 13 * (Len(a) - 1)
         IN  lo + Cardinality({i \in lo..Min(14 * Len(a), 127) : BigLeq(PowersOfTwo[i], a)})

\* lowest terms of m / 2^k, k possibly negative
RECURSIVE DblNorm(_, _)
DblNorm(m, k) ==
    IF m = << >> THEN [m |-> m, k |-> 0]
    ELSE IF k < 0 THEN [m |-> BigMulPow2(m, 0 - k), k |-> 0]
    ELSE IF k > 0 /\ ~BigOdd(m)
         THEN LET c == CHOOSE c \in 1..Min(k, 13) :
                          /\ BigModSmall(m, 2^c) = 0
                          /\ \A e \in (c + 1)..Min(k, 13) : BigModSmall(m, 2^e) # 0
              IN  DblNorm(BigDivSmall(m, 2^c), k - c)
    ELSE [m |-> m, k |-> k]

\* IEEE-754 round-to-nearest, ties-to-even, to a 53-bit significand, of the
\* real (n + e) / 2^k, where 0 <= e < 1 and e > 0 iff sticky; a sticky
\* argument comes with n >= 2^54.  The exponent range is not an issue for
\* the magnitudes handled here.
RoundToDouble(n, k, sticky) ==
    LET bits == BitLen(n)
    IN  IF bits <= 53 THEN DblNorm(n, k)
        ELSE LET cut == BigDivPow2(n, bits - 54)      \* 54 bits: 53 and a guard
                 q   == BigDivSmall(cut.q, 2)
                 up  == BigOdd(cut.q) /\ (sticky \/ cut.inexact \/ BigOdd(q))
             IN  DblNorm(IF up THEN BigAddSmall(q, 1) ELSE q, k - (bits - 54) - 1)

\* the double nearest to n / 10^d (n a natural): what parseFloat returns for
\* the decimal numeral with digits n and d fraction digits, and what the
\* division n / 10^d of two exactly representable doubles returns.
DblOfRatio(n, d) ==
    IF n = << >> THEN [m |-> << >>, k |-> 0]
    ELSE LET lim == BigMulPow10(BigMulPow2(<<1>>, 54), d)
             e   == Max(0, BitLen(lim) - BitLen(n) + 1)      \* n * 2^e > lim
             qr  == BigDivPow10(BigMulPow2(n, e), d)
         IN  RoundToDouble(qr.q, e, qr.inexact)

\* double * 10^p, the factor being an exactly representable integer
DblMulPow10(x, p) == RoundToDouble(BigMulPow10(x.m, p), x.k, FALSE)

\* comparisons of doubles
DblCmp(x, y) == BigCmp(BigMulPow2(x.m, y.k), BigMulPow2(y.m, x.k))
DblGeq(x, y) == DblCmp(x, y) >= 0
DblLeq(x, y) == DblCmp(x, y) <= 0
DblOfBig(n)  == [m |-> n, k |-> 0]

BigZero == << >>
DblZero == DblOfBig(BigZero)

\* Number(s) of the decimal string s of the natural v
NumberOfString(v) == RoundToDouble(v, 0, FALSE)

-----------------------------------------------------------------------------
(***************************************************************************)
(* Program constants                                                       *)
(***************************************************************************)
Decimals         == 8       \* smallest units per token: 10^8
MinBalanceTokens == 1000    \* safety floor of the trigger's balance check
BalanceCheckEvery == 10     \* the balance is checked when cycleCount % 10 = 0
TriggerDelay     == 3000    \* ms, auto-transaction-trigger.ts
TriggerDelayV0   == 2000    \* ms, the variant without balance check
WaitDelay        == 5000    \* ms between attempts of waitForRateLimit
WaitPeriod       == 5       \* s per attempt, in maxAttempts
DefaultInterval  == 5       \* s, monitor
DefaultMaxWait   == 10      \* min, wait
MinBalanceSweepTokens == 300
CheckInterval    == 3000    \* ms, token-auto-transfer.ts
StartupExitStatus    == 1   \* process.exit(1) of main's catch
LowBalanceExitStatus == 0   \* process.exit(0) of the balance check

(***************************************************************************)
(* Bounds of the model                                                     *)
(***************************************************************************)
MaxCycles == 11      \* loop iterations explored per run
MaxArg    == 2       \* largest numeric command-line argument explored

-----------------------------------------------------------------------------
(***************************************************************************)
(* Inputs                                                                  *)
(***************************************************************************)
\* THRESHOLD_TOKENS values: the positive decimal numerals "2000" and "0.07"
Numerals == {[digits |-> 2000, frac |-> 0], [digits |-> 7, frac |-> 2]}

\* the exact number of smallest units of a decimal token amount
Units(t) == BigMulPow10(BigFromNat(t.digits), Decimals - t.frac)

\* values the rate_limit_capacity view can return: 0, for each threshold
\* numeral T, T * 10^8 - 1 and T * 10^8, and a value above them all
ViewValues == {BigZero} \cup {Units(t) : t \in Numerals}
                        \cup {BigSub(Units(t), <<1>>) : t \in Numerals}
                        \cup {BigAddSmall(Units(t), 1) : t \in {n \in Numerals : n.frac = 0}}

\* values the 0x1::coin::balance view can return: around the safety floor
FloorUnits == BigMulPow10(BigFromNat(MinBalanceTokens), Decimals)
BalanceValues == {BigSub(FloorUnits, <<1>>), FloorUnits, BigAddSmall(FloorUnits, 1)}

\* outcome of one aptos.view call: a value, or a thrown error
ViewResults(values) == {[ok |-> TRUE, value |-> v] : v \in values}
                         \cup {[ok |-> FALSE, value |-> BigZero]}

\* Number(result[0]) of a view result, tabulated over the values above
NumberTable == [v \in ViewValues \cup BalanceValues |-> NumberOfString(v)]
Number(v) == NumberTable[v]

TriggerProgs == {"auto-transaction-trigger", "part_000"}
MonitorProgs == {"rate-limit-monitor", "part_001"}

NoNumeral == [set |-> FALSE, digits |-> 0, frac |-> 0]
Numeral(t) == [set |-> TRUE, digits |-> t.digits, frac |-> t.frac]

-----------------------------------------------------------------------------
VARIABLES
    prog,               \* which script runs
    env,                \* process.env: which variables are set, and THRESHOLD_TOKENS
    args,               \* process.argv.slice(2) of the rate-limit monitor
    pc,                 \* where the script is: the await it is suspended at
    exitCode,           \* status given to process.exit; -1 while running
    THRESHOLD,          \* monitorAndTrigger: threshold in smallest units (a double)
    transactionCount,   \* monitorAndTrigger
    cycleCount,         \* monitorAndTrigger
    capacity,           \* the capacity of the current iteration (a double)
    hasCapacity,        \* rate-limit monitor: capacity > 0
    consecutiveAvailable, \* monitorRateLimit
    consecutiveBlocked, \* monitorRateLimit
    previousCapacity,   \* monitorRateLimit: number | null
    parkingCut,         \* monitorRateLimit: number | null, of the current iteration
    intervalSeconds,    \* monitorRateLimit
    attempt,            \* waitForRateLimit
    maxAttempts,        \* waitForRateLimit
    balance,            \* token sweep: the balance read in the current iteration
    log                 \* observation history, read by the properties only

vars == <<prog, env, args, pc, exitCode, THRESHOLD, transactionCount,
          cycleCount, capacity, hasCapacity, consecutiveAvailable,
          consecutiveBlocked, previousCapacity, parkingCut, intervalSeconds,
          attempt, maxAttempts, balance, log>>

\* the variables of each script
triggerVars == <<THRESHOLD, transactionCount, cycleCount>>
monitorVars == <<hasCapacity, consecutiveAvailable, consecutiveBlocked,
                 previousCapacity, parkingCut, intervalSeconds, attempt, maxAttempts>>
sweepVars   == <<balance>>
config      == <<prog, env, args>>

NoArgs == [command |-> "", arg |-> 0]
NoEnv  == [PVK |-> FALSE, RECIPIENT_ETH_ADDRESS |-> FALSE, THRESHOLD_TOKENS |-> NoNumeral,
           ETH_PVK |-> FALSE, ETH_RPC |-> FALSE, UPBIT_ADDRESS |-> FALSE]
Null   == [set |-> FALSE, value |-> DblZero]
Some(v) == [set |-> TRUE, value |-> v]

NoAmount == [digits |-> BigZero, frac |-> 0]

InitLog == [iterations    |-> 0,        \* loop iterations begun
            readings      |-> 0,        \* capacity readings taken
            lastRead      |-> "none",   \* "ok" or "failed": how the last reading ended
            qualifying    |-> 0,        \* readings with capacity >= THRESHOLD
            countAtRead   |-> 0,        \* transactionCount when the last reading was taken
            executorCalls |-> 0,        \* invocations of executeTransaction
            execSinceRead |-> 0,        \* ... since the last reading
            inFlight      |-> 0,        \* invocations begun and neither confirmed nor failed
            amountsSent   |-> 0,        \* invocations that got as far as amountToSend
            amount        |-> NoAmount, \* amountToSend of the last of them
            firstAmount   |-> NoAmount, \* amountToSend of the first of them
            firstCapacity |-> DblZero,  \* the capacity that led to the first of them
            transfers     |-> 0,        \* token sweep: calls of tokenContract.transfer
            transferAmount |-> BigZero, \* ... the amount of the last one
            lastExec      |-> "none",   \* "ok" or "failed": how the last invocation ended
            sleepsSinceRead |-> 0,      \* delays since the last reading
            lastDelay     |-> 0,        \* ms of the last delay
            readCycle     |-> 0,        \* iteration of the last reading
            execCycle     |-> 0,        \* iteration of the last executor invocation
            balanceChecks |-> 0,        \* balance checks made
            checkCycle    |-> 0,        \* iteration of the last of them
            breachCycle   |-> 0,        \* iteration in which the balance was found too low
            balanceReadFailed |-> FALSE, \* the balance read that found it too low had thrown
            breachBalance |-> DblZero,  \* the balance that was found too low
            runLength     |-> 0,        \* length of the current run of readings of equal availability
            runAvailable  |-> FALSE,    \* the availability of that run
            prevRunLength |-> 0,        \* length of the run before it
            availableSeen |-> 0,        \* readings with capacity > 0
            sleeps        |-> 0,        \* delays taken in all
            errorAt       |-> "none",   \* sweep: the await that threw in this iteration
            lastBalanceRead |-> "none"  \* "ok" or "failed": how the last balance check's read ended
           ]

TriggerEnvs ==
    {[NoEnv EXCEPT !.PVK = p, !.RECIPIENT_ETH_ADDRESS = r, !.THRESHOLD_TOKENS = t] :
        p \in BOOLEAN, r \in BOOLEAN, t \in {NoNumeral} \cup {Numeral(n) : n \in Numerals}}

SweepEnvs ==
    {[NoEnv EXCEPT !.ETH_PVK = k, !.ETH_RPC = r, !.UPBIT_ADDRESS = u] :
        k \in BOOLEAN, r \in BOOLEAN, u \in BOOLEAN}

\* command line of the rate-limit monitor: the command, and args[2] as parseInt
\* reads it, 0 standing for an omitted, non-numeric or zero argument
MonitorArgs ==
    {[command |-> c, arg |-> a] : c \in {"", "monitor", "wait", "check", "help"},
                                  a \in 0..MaxArg}

InitTrigger ==
    /\ prog \in TriggerProgs
    /\ env \in TriggerEnvs
    /\ args = NoArgs

InitMonitor ==
    /\ prog \in MonitorProgs
    /\ env = NoEnv
    /\ args \in MonitorArgs

InitSweep ==
    /\ prog = "token-auto-transfer"
    /\ env \in SweepEnvs
    /\ args = NoArgs

Init ==
    /\ (InitTrigger \/ InitMonitor \/ InitSweep)
    /\ hasCapacity = FALSE
    /\ consecutiveAvailable = 0
    /\ consecutiveBlocked = 0
    /\ previousCapacity = Null
    /\ parkingCut = Null
    /\ intervalSeconds = 0
    /\ attempt = 0
    /\ maxAttempts = 0
    /\ balance = BigZero
    /\ pc = "main"
    /\ exitCode = -1
    /\ THRESHOLD = DblZero
    /\ transactionCount = 0
    /\ cycleCount = 0
    /\ capacity = DblZero
    /\ log = InitLog

-----------------------------------------------------------------------------
(***************************************************************************)
(* auto-transaction-trigger.ts and its variant without the balance check   *)
(***************************************************************************)
HasBalanceCheck == prog = "auto-transaction-trigger"

\* parseFloat(thresholdTokens) * 100000000
ScaleThreshold(t) == DblMulPow10(DblOfRatio(BigFromNat(t.digits), t.frac), Decimals)

\* ScaleThreshold, tabulated over the numerals THRESHOLD_TOKENS is given
ThresholdTable == [t \in {Numeral(n) : n \in Numerals} |-> ScaleThreshold(t)]

\* (mutant) a failed read answers with the capacity read before
CheckRateLimit_Stale(r) == IF r.ok THEN Number(r.value) ELSE capacity

\* checkRateLimit: the capacity, 0 when the view call throws (the catch only
\* logs; console output is not modelled)
CheckRateLimit(r) == IF r.ok THEN Number(r.value) ELSE DblZero

\* (mutant) a balance that could not be read passes the check
CheckAccountBalance_Pass(r) ==
    IF r.ok THEN Number(r.value) ELSE Number(BigAddSmall(FloorUnits, 1))

\* checkAccountBalance: the balance, 0 when the view call throws
CheckAccountBalance(r) == IF r.ok THEN Number(r.value) ELSE DblZero

\* (mutant) the check comes in the cycle after every tenth
BalanceCheckDue_Late(c) == c % BalanceCheckEvery = 1

\* cycleCount % 10 === 0
BalanceCheckDue(c) == c % BalanceCheckEvery = 0

\* balance / 100000000 <= 1000
BalanceTooLow(b) ==
    DblLeq(DblOfRatio(b.m, Decimals), DblOfBig(BigFromNat(MinBalanceTokens)))

\* (mutant) the low balance is only reported
OnLowBalance_Continue == "checkRateLimit"

\* process.exit(0) on a low balance
OnLowBalance == "exited"

\* (mutant) a low balance ends the process like a startup error
OnLowBalanceStatus_Failure == StartupExitStatus

\* the status of that exit
OnLowBalanceStatus == LowBalanceExitStatus

\* (mutant) any positive capacity triggers
ThresholdReached_Positive(c, threshold) == ~DblLeq(c, DblZero)

\* capacity >= THRESHOLD
ThresholdReached(c, threshold) == DblGeq(c, threshold)

\* the numbers a capacity reading and a balance reading can give, and the
\* thresholds monitorAndTrigger can run with
CapacityNumbers == {Number(v) : v \in ViewValues} \cup {DblZero}
BalanceNumbers  == {Number(v) : v \in BalanceValues} \cup {DblZero}
Thresholds      == {ThresholdTable[t] : t \in DOMAIN ThresholdTable}

\* the two comparisons, tabulated over these numbers
ReachedTable == [c \in CapacityNumbers, t \in Thresholds |-> ThresholdReached(c, t)]
TooLowTable  == [b \in BalanceNumbers |-> BalanceTooLow(b)]

\* whether a capacity is at least a threshold, for the history of readings
QualifyingTable == [c \in CapacityNumbers, t \in Thresholds |-> DblGeq(c, t)]

\* the integer nearest to x * 10^d
NearestScaled(x, d) ==
    LET scaled == BigMulPow10(x.m, d)
        q      == BigDivPow2(scaled, x.k).q
    IN  IF x.k > 0 /\ BigOdd(BigDivPow2(scaled, x.k - 1).q) THEN BigAddSmall(q, 1) ELSE q

\* the least number of fraction digits, from d on, with which the decimal
\* numeral nearest to x reads back as x (a double needs at most 17 digits)
RECURSIVE ShortestFrac(_, _)
ShortestFrac(x, d) ==
    IF d >= 17 \/ DblOfRatio(NearestScaled(x, d), d) = x THEN d
    ELSE ShortestFrac(x, d + 1)

\* Number.prototype.toString of a non-negative double below 10^21: the
\* shortest decimal numeral that reads back as the same double, as its digits
\* and the number of them after the point
NumberToString(x) ==
    LET d == ShortestFrac(x, 0)
    IN  [digits |-> NearestScaled(x, d), frac |-> d]

\* (mutant) the observed capacity is passed as the amount
TriggerAmount_Capacity(c, threshold) == c

\* the third argument of executeTransaction(aptos, account, THRESHOLD)
TriggerAmount(c, threshold) == threshold

\* const amountToSend = threshold.toString(), tabulated
AmountTable == [x \in CapacityNumbers \cup Thresholds |-> NumberToString(x)]
AmountToSend(threshold) == AmountTable[threshold]

\* (mutant) a failed transaction is tried again at once
OnTriggerFailed_Retry == "executeTransaction"

\* (mutant) a failed transaction is not caught
OnTriggerFailed_Propagate == "exited"

\* the catch around executeTransaction logs and falls through to the delay
OnTriggerFailed == "sleep"

\* the delay at the end of an iteration
LoopDelay == IF HasBalanceCheck THEN TriggerDelay ELSE TriggerDelayV0

\* main() and monitorAndTrigger up to the loop: a missing PVK or
\* THRESHOLD_TOKENS throws, main's catch exits with status 1
Startup ==
    /\ prog \in TriggerProgs
    /\ pc = "main"
    /\ IF ~env.PVK \/ ~env.THRESHOLD_TOKENS.set
       THEN /\ pc' = "exited"
            /\ exitCode' = StartupExitStatus
            /\ UNCHANGED THRESHOLD
       ELSE /\ pc' = "cycle"
            /\ THRESHOLD' = ThresholdTable[env.THRESHOLD_TOKENS]
            /\ UNCHANGED exitCode
    /\ transactionCount' = 0
    /\ cycleCount' = 0
    /\ UNCHANGED <<config, capacity, log, monitorVars, sweepVars>>

\* top of the while loop
BeginCycle ==
    /\ prog \in TriggerProgs
    /\ pc = "cycle"
    /\ log.iterations < MaxCycles
    /\ cycleCount' = IF HasBalanceCheck THEN cycleCount + 1 ELSE cycleCount
    /\ pc' = IF HasBalanceCheck /\ BalanceCheckDue(cycleCount')
             THEN "checkBalance" ELSE "checkRateLimit"
    /\ log' = [log EXCEPT !.iterations = @ + 1]
    /\ UNCHANGED <<config, exitCode, THRESHOLD, transactionCount, capacity,
                   monitorVars, sweepVars>>

\* the balance check of every 10th cycle
SafetyCheck ==
    /\ pc = "checkBalance"
    /\ \E r \in ViewResults(BalanceValues) :
         LET accountBalance == CheckAccountBalance(r)
         IN  IF TooLowTable[accountBalance]
             THEN /\ pc' = OnLowBalance
                  /\ exitCode' = IF OnLowBalance = "exited" THEN OnLowBalanceStatus
                                  ELSE exitCode
                  /\ log' = [log EXCEPT !.balanceChecks = @ + 1,
                                        !.checkCycle = log.iterations,
                                        !.breachCycle = log.iterations,
                                        !.balanceReadFailed = ~r.ok,
                                        !.lastBalanceRead = IF r.ok THEN "ok" ELSE "failed",
                                        !.breachBalance = accountBalance]
             ELSE /\ pc' = "checkRateLimit"
                  /\ log' = [log EXCEPT !.balanceChecks = @ + 1,
                                        !.checkCycle = log.iterations,
                                        !.lastBalanceRead = IF r.ok THEN "ok" ELSE "failed"]
                  /\ UNCHANGED exitCode
    /\ UNCHANGED <<config, triggerVars, capacity, monitorVars, sweepVars>>

\* const capacity = await checkRateLimit(aptos, ENDPOINT_ID)
ReadCapacity ==
    /\ prog \in TriggerProgs
    /\ pc = "checkRateLimit"
    /\ \E r \in ViewResults(ViewValues) :
         /\ capacity' = CheckRateLimit(r)
         /\ log' = [log EXCEPT
                      !.readings = @ + 1,
                      !.lastRead = IF r.ok THEN "ok" ELSE "failed",
                      !.qualifying =
                          IF QualifyingTable[IF r.ok THEN Number(r.value) ELSE DblZero,
                                             THRESHOLD]
                          THEN @ + 1 ELSE @,
                      !.countAtRead = transactionCount,
                      !.execSinceRead = 0,
                      !.sleepsSinceRead = 0,
                      !.readCycle = log.iterations]
    /\ pc' = IF HasBalanceCheck /\ BalanceCheckDue(cycleCount)
             THEN "showBalance" ELSE "compare"
    /\ UNCHANGED <<config, exitCode, triggerVars, monitorVars, sweepVars>>

\* the second balance read of a 10th cycle; its result is only printed
ShowBalance ==
    /\ pc = "showBalance"
    /\ pc' = "compare"
    /\ UNCHANGED <<config, exitCode, triggerVars, capacity, log, monitorVars, sweepVars>>

\* if (capacity >= THRESHOLD) { transactionCount++; ...
Decide ==
    /\ pc = "compare"
    /\ IF ReachedTable[capacity, THRESHOLD]
       THEN /\ transactionCount' = transactionCount + 1
            /\ pc' = "executeTransaction"
       ELSE /\ pc' = "sleep"
            /\ UNCHANGED transactionCount
    /\ UNCHANGED <<config, exitCode, THRESHOLD, cycleCount, capacity, log,
                   monitorVars, sweepVars>>

\* executeTransaction up to its first await; a missing RECIPIENT_ETH_ADDRESS throws
ExecuteStart ==
    /\ pc = "executeTransaction"
    /\ pc' = IF env.RECIPIENT_ETH_ADDRESS THEN "build" ELSE OnTriggerFailed
    /\ log' = [log EXCEPT !.executorCalls = @ + 1,
                          !.execSinceRead = @ + 1,
                          !.execCycle = log.iterations,
                          !.inFlight = IF env.RECIPIENT_ETH_ADDRESS THEN @ + 1 ELSE @,
                          !.amountsSent = IF env.RECIPIENT_ETH_ADDRESS THEN @ + 1 ELSE @,
                          !.amount = IF env.RECIPIENT_ETH_ADDRESS
                                     THEN AmountToSend(TriggerAmount(capacity, THRESHOLD))
                                     ELSE @,
                          !.firstAmount = IF env.RECIPIENT_ETH_ADDRESS /\ log.amountsSent = 0
                                          THEN AmountToSend(TriggerAmount(capacity, THRESHOLD))
                                          ELSE @,
                          !.firstCapacity = IF env.RECIPIENT_ETH_ADDRESS /\ log.amountsSent = 0
                                            THEN capacity ELSE @,
                          !.lastExec = IF env.RECIPIENT_ETH_ADDRESS THEN "pending" ELSE "failed"]
    /\ UNCHANGED <<config, exitCode, triggerVars, capacity, monitorVars, sweepVars>>

\* one await of executeTransaction resolves (ok) or rejects; a rejection is
\* logged, rethrown and caught by the caller
ExecAwait(at, next) ==
    /\ pc = at
    /\ \E ok \in BOOLEAN :
         /\ pc' = IF ok THEN next ELSE OnTriggerFailed
         /\ log' = [log EXCEPT !.lastExec = IF ~ok THEN "failed"
                                            ELSE IF at = "confirm" THEN "ok" ELSE @,
                               !.inFlight = IF ~ok \/ at = "confirm" THEN @ - 1 ELSE @]
    /\ UNCHANGED <<config, exitCode, triggerVars, capacity, monitorVars, sweepVars>>

\* aptos.transaction.build.simple, then sign
ExecBuild == ExecAwait("build", "submit")
\* (mutant) executeTransaction returns once the transaction is submitted
AwaitConfirmation_Skipped == "sleep"

\* after the submit: await aptos.waitForTransaction
AwaitConfirmation == "confirm"

\* aptos.transaction.submit.simple
ExecSubmit == ExecAwait("submit", AwaitConfirmation)
\* aptos.waitForTransaction
ExecConfirm == ExecAwait("confirm", "sleep")

\* await new Promise(resolve => setTimeout(resolve, 3000))
\* (the catch of the loop body has the same delay; nothing in the body throws,
\* checkRateLimit, checkAccountBalance and the executor's caller catch all)
Sleep ==
    /\ prog \in TriggerProgs
    /\ pc = "sleep"
    /\ pc' = "cycle"
    /\ log' = [log EXCEPT !.sleepsSinceRead = @ + 1, !.sleeps = @ + 1,
                          !.lastDelay = LoopDelay]
    /\ UNCHANGED <<config, exitCode, triggerVars, capacity, monitorVars, sweepVars>>

-----------------------------------------------------------------------------
(***************************************************************************)
(* rate-limit-monitor.ts: check / wait / monitor, in the variant with      *)
(* parking-cut detection (part_001) and the one without                    *)
(***************************************************************************)
TracksCut == prog = "part_001"

\* parseInt(args[2]) || dflt
ArgOr(a, dflt) == IF a = 0 THEN dflt ELSE a

\* (mutant) hasCapacity: capacity >= 0
CheckRateLimitStatus_NonNegative(r) ==
    IF r.ok THEN [capacity |-> Number(r.value), hasCapacity |-> DblGeq(Number(r.value), DblZero)]
    ELSE [capacity |-> DblZero, hasCapacity |-> FALSE]

\* checkRateLimit: { capacity, hasCapacity: capacity > 0 }, and
\* { capacity: 0, hasCapacity: false } when the view call throws
CheckRateLimitStatus(r) ==
    IF r.ok THEN [capacity |-> Number(r.value), hasCapacity |-> ~DblLeq(Number(r.value), DblZero)]
    ELSE [capacity |-> DblZero, hasCapacity |-> FALSE]

\* (mutant) the cut is taken when the capacity went up: diff > 0
ParkingCut_Rise(previous, c) ==
    IF previous.set /\ ~DblGeq(previous.value, c)
    THEN Some(DblOfBig(BigSub(c.m, previous.value.m)))
    ELSE Null

\* let parkingCut = null; if (previousCapacity !== null) { diff = capacity -
\* previousCapacity; if (diff < 0) parkingCut = diff }.  Kept as |diff|; both
\* operands are integers below 2^53, so the subtraction is exact.
ParkingCut(previous, c) ==
    IF previous.set /\ ~DblGeq(c, previous.value)
    THEN Some(DblOfBig(BigSub(previous.value.m, c.m)))
    ELSE Null

\* (mutant) a capacity of 0 is not remembered: if (capacity) previousCapacity = capacity
NextPreviousCapacity_SkipZero(previous, c) == IF c = DblZero THEN previous ELSE Some(c)

\* previousCapacity = capacity, the last statement of the try block
NextPreviousCapacity(previous, c) == Some(c)

\* (mutant) the counter of available readings is never reset
NextConsecutiveAvailable_NoReset(has, n) == IF has THEN n + 1 ELSE n

\* consecutiveAvailable++ / consecutiveAvailable = 0
NextConsecutiveAvailable(has, n) == IF has THEN n + 1 ELSE 0

\* (mutant) the counter of unavailable readings restarts at 1 instead of 0
NextConsecutiveBlocked_ResetToOne(has, n) == IF has THEN 1 ELSE n + 1

\* consecutiveBlocked = 0 / consecutiveBlocked++
NextConsecutiveBlocked(has, n) == IF has THEN 0 ELSE n + 1

\* (maxWaitMinutes * 60) / 5
MaxAttempts(maxWaitMinutes) == (maxWaitMinutes * 60) \div WaitPeriod

\* (mutant) the loop stops one attempt short
WaitLoopCondition_Strict(a, max) == a < max

\* for (...; attempt <= maxAttempts; ...)
WaitLoopCondition(a, max) == a <= max

\* (mutant) the delay follows every unavailable reading
WaitSleepsAfter_Always(a, max) == TRUE

\* if (attempt < maxAttempts) await sleep
WaitSleepsAfter(a, max) == a < max

\* process.exit(available ? 0 : 1)
ExitStatus(available) == IF available THEN 0 ELSE 1

\* main(): dispatch on the command
MonitorMain ==
    /\ prog \in MonitorProgs
    /\ pc = "main"
    /\ LET monitors == \/ args.command = "monitor"
                       \/ args.command = "" /\ TracksCut     \* default of part_001
       IN  /\ pc' = IF monitors THEN "monitorRead"
                    ELSE IF args.command = "wait"
                         THEN (IF WaitLoopCondition(1, MaxAttempts(ArgOr(args.arg, DefaultMaxWait)))
                               THEN "waitRead" ELSE "exited")
                    ELSE IF args.command = "check" THEN "checkRead"
                    ELSE "done"                                \* usage text
           /\ intervalSeconds' =
                 IF args.command = "monitor" THEN ArgOr(args.arg, DefaultInterval)
                 ELSE IF monitors THEN DefaultInterval ELSE intervalSeconds
           /\ maxAttempts' = IF args.command = "wait"
                             THEN MaxAttempts(ArgOr(args.arg, DefaultMaxWait)) ELSE maxAttempts
           /\ attempt' = IF args.command = "wait" THEN 1 ELSE attempt
           /\ exitCode' = IF pc' = "exited" THEN ExitStatus(FALSE) ELSE exitCode
    /\ UNCHANGED <<config, triggerVars, capacity, hasCapacity, consecutiveAvailable,
                   consecutiveBlocked, previousCapacity, parkingCut, sweepVars, log>>

\* one iteration of monitorRateLimit up to its delay
MonitorRead ==
    /\ pc = "monitorRead"
    /\ log.iterations < MaxCycles
    /\ \E r \in ViewResults(ViewValues) :
         LET res == CheckRateLimitStatus(r)
         IN  /\ capacity' = res.capacity
             /\ hasCapacity' = res.hasCapacity
             /\ parkingCut' = IF TracksCut THEN ParkingCut(previousCapacity, res.capacity)
                              ELSE parkingCut
             /\ consecutiveAvailable' =
                   NextConsecutiveAvailable(res.hasCapacity, consecutiveAvailable)
             /\ consecutiveBlocked' =
                   NextConsecutiveBlocked(res.hasCapacity, consecutiveBlocked)
             /\ previousCapacity' = IF TracksCut
                                    THEN NextPreviousCapacity(previousCapacity, res.capacity)
                                    ELSE previousCapacity
             /\ log' = [log EXCEPT
                          !.iterations = @ + 1,
                          !.readings = @ + 1,
                          !.lastRead = IF r.ok THEN "ok" ELSE "failed",
                          !.sleepsSinceRead = 0,
                          !.readCycle = log.iterations + 1,
                          !.runLength = IF log.readings > 0
                                           /\ log.runAvailable = (r.ok /\ r.value # BigZero)
                                        THEN @ + 1 ELSE 1,
                          !.prevRunLength = IF log.readings > 0
                                               /\ log.runAvailable = (r.ok /\ r.value # BigZero)
                                            THEN @ ELSE log.runLength,
                          !.runAvailable = r.ok /\ r.value # BigZero]
    /\ pc' = "monitorSleep"
    /\ UNCHANGED <<config, exitCode, triggerVars, intervalSeconds, attempt,
                   maxAttempts, sweepVars>>

\* setTimeout(resolve, intervalSeconds * 1000)
MonitorSleep ==
    /\ pc = "monitorSleep"
    /\ pc' = "monitorRead"
    /\ log' = [log EXCEPT !.sleepsSinceRead = @ + 1, !.sleeps = @ + 1,
                          !.lastDelay = intervalSeconds * 1000]
    /\ UNCHANGED <<config, exitCode, triggerVars, capacity, monitorVars, sweepVars>>

\* where waitForRateLimit and main go once attempt has the value a: another
\* reading, or return false and process.exit(1)
WaitContinue(a) ==
    /\ attempt' = a
    /\ IF WaitLoopCondition(a, maxAttempts)
       THEN /\ pc' = "waitRead"
            /\ UNCHANGED exitCode
       ELSE /\ pc' = "exited"
            /\ exitCode' = ExitStatus(FALSE)

\* one attempt of waitForRateLimit: the reading and what follows it
WaitRead ==
    /\ pc = "waitRead"
    /\ \E r \in ViewResults(ViewValues) :
         LET res == CheckRateLimitStatus(r)
         IN  /\ capacity' = res.capacity
             /\ hasCapacity' = res.hasCapacity
             /\ log' = [log EXCEPT
                          !.readings = @ + 1,
                          !.lastRead = IF r.ok THEN "ok" ELSE "failed",
                          !.sleepsSinceRead = 0,
                          !.availableSeen = IF r.ok /\ r.value # BigZero THEN @ + 1 ELSE @]
             /\ IF res.hasCapacity
                THEN /\ pc' = "exited"                      \* return true
                     /\ exitCode' = ExitStatus(TRUE)
                     /\ UNCHANGED attempt
                ELSE IF WaitSleepsAfter(attempt, maxAttempts)
                THEN /\ pc' = "waitSleep"
                     /\ UNCHANGED <<attempt, exitCode>>
                ELSE WaitContinue(attempt + 1)
    /\ UNCHANGED <<config, triggerVars, consecutiveAvailable, consecutiveBlocked,
                   previousCapacity, parkingCut, intervalSeconds, maxAttempts, sweepVars>>

\* setTimeout(resolve, 5000), then attempt++
WaitSleep ==
    /\ pc = "waitSleep"
    /\ WaitContinue(attempt + 1)
    /\ log' = [log EXCEPT !.sleepsSinceRead = @ + 1, !.sleeps = @ + 1,
                          !.lastDelay = WaitDelay]
    /\ UNCHANGED <<config, triggerVars, capacity, hasCapacity, consecutiveAvailable,
                   consecutiveBlocked, previousCapacity, parkingCut, intervalSeconds,
                   maxAttempts, sweepVars>>

\* the check command: one reading, then process.exit(hasCapacity ? 0 : 1)
CheckOnce ==
    /\ pc = "checkRead"
    /\ \E r \in ViewResults(ViewValues) :
         LET res == CheckRateLimitStatus(r)
         IN  /\ capacity' = res.capacity
             /\ hasCapacity' = res.hasCapacity
             /\ exitCode' = ExitStatus(res.hasCapacity)
             /\ log' = [log EXCEPT
                          !.readings = @ + 1,
                          !.lastRead = IF r.ok THEN "ok" ELSE "failed",
                          !.availableSeen = IF r.ok /\ r.value # BigZero THEN @ + 1 ELSE @]
    /\ pc' = "exited"
    /\ UNCHANGED <<config, triggerVars, consecutiveAvailable, consecutiveBlocked,
                   previousCapacity, parkingCut, intervalSeconds, attempt, maxAttempts,
                   sweepVars>>

-----------------------------------------------------------------------------
(***************************************************************************)
(* token-auto-transfer.ts                                                  *)
(***************************************************************************)
\* ethers.parseUnits('300', TOKEN_DECIMALS): a bigint, exact
MIN_BALANCE == BigMulPow10(BigFromNat(MinBalanceSweepTokens), Decimals)

\* balances balanceOf can return
SweepBalances == {BigZero, BigSub(MIN_BALANCE, <<1>>), MIN_BALANCE, BigAddSmall(MIN_BALANCE, 1)}

\* (mutant) balance > MIN_BALANCE
SweepDue_Above(b) == BigLt(MIN_BALANCE, b)

\* balance >= MIN_BALANCE
SweepDue(b) == BigLeq(MIN_BALANCE, b)

\* (mutant) the catch goes straight to the next balance reading (continue)
OnSweepError_Retry == "balanceOf"

\* catch (error) { console.error(...) } falls through to the delay that ends
\* the loop body
OnSweepError == "sweepSleep"

\* main() up to the loop
SweepMain ==
    /\ prog = "token-auto-transfer"
    /\ pc = "main"
    /\ IF ~env.ETH_PVK \/ ~env.ETH_RPC \/ ~env.UPBIT_ADDRESS
       THEN /\ pc' = "exited"
            /\ exitCode' = 1
       ELSE /\ pc' = "balanceOf"
            /\ UNCHANGED exitCode
    /\ UNCHANGED <<config, triggerVars, capacity, monitorVars, sweepVars, log>>

\* const balance = await tokenContract.balanceOf(wallet.address); a throw
\* goes to the catch of the loop body
SweepRead ==
    /\ pc = "balanceOf"
    /\ log.iterations < MaxCycles
    /\ \E r \in ViewResults(SweepBalances) :
         /\ balance' = IF r.ok THEN r.value ELSE balance
         /\ pc' = IF ~r.ok THEN OnSweepError
                  ELSE IF SweepDue(r.value) THEN "getFeeData" ELSE "sweepSleep"
         /\ log' = [log EXCEPT
                      !.iterations = @ + 1,
                      !.readings = @ + 1,
                      !.lastRead = IF r.ok THEN "ok" ELSE "failed",
                      !.errorAt = IF r.ok THEN "none" ELSE "balanceOf",
                      !.sleepsSinceRead = 0,
                      !.executorCalls = IF r.ok /\ SweepDue(r.value) THEN @ + 1 ELSE @,
                      !.execSinceRead = IF r.ok /\ SweepDue(r.value) THEN 1 ELSE 0,
                      !.inFlight = IF r.ok /\ SweepDue(r.value) THEN @ + 1 ELSE @,
                      !.lastExec = IF r.ok /\ SweepDue(r.value) THEN "pending" ELSE @,
                      !.readCycle = log.iterations + 1]
    /\ UNCHANGED <<config, exitCode, triggerVars, capacity, monitorVars>>

\* the amount of estimateGas(UPBIT_ADDRESS, balance) and transfer(UPBIT_ADDRESS,
\* balance, ...)
SweepAmount(b) == b

\* one await of the transfer resolves (ok) or rejects into the catch; from the
\* await of the transfer on, tokenContract.transfer has been called
SweepAwait(at, next) ==
    /\ pc = at
    /\ \E ok \in BOOLEAN :
         /\ pc' = IF ok THEN next ELSE OnSweepError
         /\ log' = [log EXCEPT
                      !.errorAt = IF ok THEN @ ELSE at,
                      !.transfers = IF at = "transfer" THEN @ + 1 ELSE @,
                      !.transferAmount = IF at = "transfer" THEN SweepAmount(balance) ELSE @,
                      !.inFlight = IF ~ok \/ at = "txWait" THEN @ - 1 ELSE @,
                      !.lastExec = IF ~ok THEN "failed"
                                   ELSE IF at = "txWait" THEN "ok" ELSE @]
    /\ UNCHANGED <<config, exitCode, triggerVars, capacity, monitorVars, sweepVars>>

\* provider.getFeeData()
SweepFeeData == SweepAwait("getFeeData", "estimateGas")
\* tokenContract.transfer.estimateGas(UPBIT_ADDRESS, balance)
SweepEstimateGas == SweepAwait("estimateGas", "transfer")
\* tokenContract.transfer(UPBIT_ADDRESS, balance, {...})
SweepTransfer == SweepAwait("transfer", "txWait")
\* tx.wait()
SweepTxWait == SweepAwait("txWait", "sweepSleep")

\* setTimeout(resolve, CHECK_INTERVAL), after the try/catch
SweepSleep ==
    /\ pc = "sweepSleep"
    /\ pc' = "balanceOf"
    /\ log' = [log EXCEPT !.sleepsSinceRead = @ + 1, !.sleeps = @ + 1,
                          !.lastDelay = CheckInterval]
    /\ UNCHANGED <<config, exitCode, triggerVars, capacity, monitorVars, sweepVars>>

-----------------------------------------------------------------------------
Next ==
    \/ Startup
    \/ BeginCycle
    \/ SafetyCheck
    \/ ReadCapacity
    \/ ShowBalance
    \/ Decide
    \/ ExecuteStart
    \/ ExecBuild
    \/ ExecSubmit
    \/ ExecConfirm
    \/ Sleep
    \/ MonitorMain
    \/ MonitorRead
    \/ MonitorSleep
    \/ WaitRead
    \/ WaitSleep
    \/ CheckOnce
    \/ SweepMain
    \/ SweepRead
    \/ SweepFeeData
    \/ SweepEstimateGas
    \/ SweepTransfer
    \/ SweepTxWait
    \/ SweepSleep

Spec == Init /\ [][Next]_vars

\* the steps of the auto-trigger scripts, and of the wait command
TriggerNext ==
    \/ Startup \/ BeginCycle \/ SafetyCheck \/ ReadCapacity \/ ShowBalance \/ Decide
    \/ ExecuteStart \/ ExecBuild \/ ExecSubmit \/ ExecConfirm \/ Sleep
WaitNext == MonitorMain \/ WaitRead \/ WaitSleep

\* Every awaited call settles and every timer fires: the continuation of the
\* one await a script is suspended at is eventually run.  Each script is a
\* single sequential async function, so at most one of its actions is enabled
\* at a time and weak fairness of their disjunction is weak fairness of that
\* continuation.
LiveSpec     == Init /\ [][Next]_vars /\ WF_vars(TriggerNext)
WaitLiveSpec == Init /\ [][Next]_vars /\ WF_vars(WaitNext)

-----------------------------------------------------------------------------
(***************************************************************************)
(* Properties                                                              *)
(***************************************************************************)
Triggering == prog \in TriggerProgs
Monitoring == prog \in MonitorProgs /\ pc \in {"monitorRead", "monitorSleep"}
Waiting    == prog \in MonitorProgs /\ args.command = "wait" /\ pc # "main"

\* the await points of executeTransaction
ExecutorPcs == {"build", "submit", "confirm"}

\* the places between the executor's invocation (or the decision not to
\* invoke it) and the next capacity reading
AfterDecisionPcs == ExecutorPcs \cup {"sleep", "cycle", "checkBalance", "checkRateLimit", "exited"}

\* the last capacity reading met the threshold
Qualifying == log.lastRead # "none" /\ DblGeq(capacity, THRESHOLD)

\* the delay each polling loop is written with, in ms
FixedDelay ==
    IF prog = "auto-transaction-trigger" THEN 3000
    ELSE IF prog = "part_000" THEN 2000
    ELSE 1000 * (IF args.command = "monitor" /\ args.arg # 0 THEN args.arg ELSE 5)

\* C1: in auto-trigger mode, a reading with capacity >= THRESHOLD is followed
\* by exactly one invocation of executeTransaction before the next reading,
\* whether it succeeds or fails; a failed invocation is not retried.
C1_OneTriggerPerQualifyingReading ==
    (Triggering /\ Qualifying) =>
        /\ log.execSinceRead <= 1
        /\ pc \in AfterDecisionPcs => log.execSinceRead = 1

\* a further reading is about to be taken after a qualifying reading whose
\* one invocation failed
C1_Witness ==
    /\ Triggering /\ Qualifying
    /\ pc = "checkRateLimit"
    /\ log.lastExec = "failed"
    /\ log.execSinceRead = 1

\* C2: in auto-trigger mode, after a reading with capacity < THRESHOLD (a
\* failed reading is reported as 0) the executor is not invoked before the
\* next reading and transactionCount is unchanged.
C2_NoTriggerBelowThreshold ==
    /\ (Triggering /\ log.lastRead = "failed") => capacity = DblZero
    /\ (Triggering /\ log.lastRead # "none" /\ ~DblGeq(capacity, THRESHOLD)) =>
          /\ log.execSinceRead = 0
          /\ pc \notin ExecutorPcs \cup {"executeTransaction"}
          /\ transactionCount = log.countAtRead

\* a further reading is about to be taken after a failed reading that
\* followed earlier triggers
C2_Witness ==
    /\ Triggering
    /\ pc = "checkRateLimit"
    /\ log.lastRead = "failed"
    /\ transactionCount > 0
    /\ log.sleepsSinceRead = 1

\* C3: the internal threshold is exactly T * 10^8 for the configured decimal
\* T; a reading of T * 10^8 triggers and a reading of T * 10^8 - 1 does not.
C3_ThresholdScalingExact ==
    (Triggering /\ log.lastRead = "ok" /\ pc \in AfterDecisionPcs) =>
        LET exact == DblOfBig(Units(env.THRESHOLD_TOKENS))
            below == DblOfBig(BigSub(Units(env.THRESHOLD_TOKENS), <<1>>))
        IN  /\ capacity = exact => (THRESHOLD = exact /\ log.execSinceRead = 1)
            /\ capacity = below => log.execSinceRead = 0

\* C4: in auto-trigger mode and in monitor mode a failed capacity read does
\* not end the loop: it counts as capacity 0, no trigger is attempted for it,
\* and the next reading is taken after exactly one delay of the fixed length.
C4_FailedReadIsolated ==
    ((Triggering \/ Monitoring) /\ log.lastRead = "failed") =>
        /\ capacity = DblZero
        /\ log.execSinceRead = 0
        /\ pc \notin ExecutorPcs \cup {"executeTransaction"}
        /\ pc = "exited" => (exitCode = 0 /\ log.breachCycle = log.iterations)
        /\ log.sleepsSinceRead <= 1
        /\ pc \in {"cycle", "checkBalance", "checkRateLimit", "monitorRead"} =>
              (log.sleepsSinceRead = 1 /\ log.lastDelay = FixedDelay)

\* the reading after a failed reading is about to be taken, one delay later
C4_Witness ==
    /\ pc \in {"checkRateLimit", "monitorRead"}
    /\ log.lastRead = "failed"
    /\ log.readings >= 2
    /\ log.sleepsSinceRead = 1

\* C5: a failed executeTransaction does not end the auto-trigger loop, and at
\* the end of every iteration transactionCount is the number of executor
\* invocations so far, which is the number of readings with capacity >=
\* THRESHOLD.
C5_CountReflectsAttempts ==
    Triggering =>
        /\ pc \in {"sleep", "cycle", "checkBalance", "checkRateLimit", "exited"} =>
              (transactionCount = log.executorCalls /\ transactionCount = log.qualifying)
        /\ (log.executorCalls > 0 /\ pc = "exited") =>
              (exitCode = 0 /\ log.breachCycle = log.iterations)

\* the loop goes on after a second attempt that failed
C5_Witness ==
    /\ Triggering
    /\ pc = "checkRateLimit"
    /\ log.lastExec = "failed"
    /\ transactionCount >= 2
    /\ log.readCycle < log.iterations

\* C6: with any required variable missing (PVK, RECIPIENT_ETH_ADDRESS or
\* THRESHOLD_TOKENS in auto-trigger mode; ETH_PVK, ETH_RPC or UPBIT_ADDRESS in
\* the token sweep) the process exits with status 1 before any reading or
\* trigger.
C6_MissingConfigIsFatal ==
    LET missing ==
          \/ Triggering /\ (~env.PVK \/ ~env.RECIPIENT_ETH_ADDRESS \/ ~env.THRESHOLD_TOKENS.set)
          \/ prog = "token-auto-transfer"
               /\ (~env.ETH_PVK \/ ~env.ETH_RPC \/ ~env.UPBIT_ADDRESS)
    IN  missing =>
          /\ log.readings = 0
          /\ log.executorCalls = 0
          /\ pc # "main" => (pc = "exited" /\ exitCode = 1)

\* C7: once the auto-trigger loop has started, the process ends only on a
\* balance found below the floor, never on an error of a reader or of the
\* executor.
C7_OnlySafetyFloorTerminates ==
    (Triggering /\ pc = "exited" /\ log.iterations > 0) =>
        (log.breachCycle = log.iterations /\ ~log.balanceReadFailed)

\* C8: in a cycle whose balance check finds the balance too low the process
\* ends before the capacity reading and before any executor invocation of
\* that cycle.
C8_SafetyFloorBeforeReading ==
    (Triggering /\ log.breachCycle > 0) =>
        /\ pc = "exited"
        /\ exitCode = 0
        /\ log.readCycle < log.breachCycle
        /\ log.execCycle < log.breachCycle

\* the process has ended on a balance read below the floor, after triggers
C8_Witness ==
    /\ Triggering
    /\ log.breachCycle > 0
    /\ ~log.balanceReadFailed
    /\ BigLt(log.breachBalance.m, FloorUnits)
    /\ log.executorCalls > 0
    /\ pc = "exited"

\* C9: wait mode, maxAttempts = maxWaitMinutes * 60 / 5: it ends with exit
\* code 0 right after the first available reading, the n-th of n readings,
\* n <= maxAttempts; it ends with exit code 1 after maxAttempts unavailable
\* readings.
C9_WaitResult ==
    Waiting =>
        /\ maxAttempts = 12 * (IF args.arg = 0 THEN 10 ELSE args.arg)
        /\ log.readings <= maxAttempts
        /\ log.availableSeen > 0 =>
              /\ log.availableSeen = 1
              /\ pc = "exited" /\ exitCode = 0
              /\ log.readings = attempt
              /\ log.lastRead = "ok" /\ capacity # DblZero
        /\ (log.availableSeen = 0 /\ log.readings = maxAttempts) =>
              (pc = "exited" /\ exitCode = 1)
        /\ pc = "exited" =>
              \/ exitCode = 0 /\ log.availableSeen = 1
              \/ exitCode = 1 /\ log.availableSeen = 0 /\ log.readings = maxAttempts

\* the last permitted attempt was the first available reading
C9_Witness ==
    /\ Waiting
    /\ exitCode = 0
    /\ log.readings = maxAttempts
    /\ log.sleeps = maxAttempts - 1

\* C10: monitor mode: each reading that continues a run adds one to the
\* run's counter; a reading that flips the availability finds the old run's
\* counter at the run's length k, sets it to 0 and the other counter to 1; a
\* counter goes back to 0 exactly on a flip.
C10_StreakStep ==
    (Monitoring /\ log'.readings = log.readings + 1) =>
        LET first    == log.readings = 0
            toAvail  == log'.runAvailable /\ (first \/ ~log.runAvailable)
            toBlock  == ~log'.runAvailable /\ (first \/ log.runAvailable)
        IN  /\ (log'.runAvailable /\ ~toAvail) =>
                  (consecutiveAvailable' = consecutiveAvailable + 1 /\ consecutiveBlocked' = 0)
            /\ (~log'.runAvailable /\ ~toBlock) =>
                  (consecutiveBlocked' = consecutiveBlocked + 1 /\ consecutiveAvailable' = 0)
            /\ toBlock => /\ consecutiveAvailable = log.runLength
                          /\ consecutiveAvailable' = 0
                          /\ consecutiveBlocked' = 1
            /\ toAvail => /\ consecutiveBlocked = log.runLength
                          /\ consecutiveBlocked' = 0
                          /\ consecutiveAvailable' = 1
            /\ (consecutiveAvailable > 0 /\ consecutiveAvailable' = 0) <=> (toBlock /\ ~first)
            /\ (consecutiveBlocked > 0 /\ consecutiveBlocked' = 0) <=> (toAvail /\ ~first)

C10_StreakCounters == [][C10_StreakStep]_vars

\* an unavailable reading has just ended a run of three available readings
C10_Witness ==
    /\ Monitoring
    /\ ~log.runAvailable
    /\ log.runLength = 1
    /\ log.prevRunLength = 3
    /\ consecutiveAvailable = 0
    /\ consecutiveBlocked = 1

Checking == prog \in MonitorProgs /\ args.command = "check" /\ pc # "main"

\* C11: check mode takes exactly one capacity reading, never sleeps and never
\* reads again; it ends with exit code 0 if and only if that reading is
\* available (capacity > 0), and with exit code 1 on a zero capacity or a
\* failed read.
C11_CheckOnceResult ==
    Checking =>
        /\ log.sleeps = 0
        /\ pc \in {"checkRead", "exited"}
        /\ pc = "checkRead" => (log.readings = 0 /\ exitCode = -1)
        /\ pc = "exited" =>
              /\ log.readings = 1
              /\ exitCode = 0 <=> (log.lastRead = "ok" /\ capacity # DblZero)
              /\ exitCode = 1 <=> (log.lastRead = "failed" \/ capacity = DblZero)
              /\ log.lastRead = "failed" => capacity = DblZero

\* check mode has ended with exit code 1 on a reading of capacity 0
C11_Witness ==
    /\ Checking
    /\ pc = "exited"
    /\ log.lastRead = "ok"
    /\ capacity = DblZero
    /\ exitCode = 1

Sweeping == prog = "token-auto-transfer"

\* C12: in the auto-trigger loop and in the token sweep loop at most one
\* triggered action is outstanding; no capacity or balance reading and no
\* further executor invocation starts while one is outstanding, and an
\* iteration begins only after the reading, the optional trigger and the
\* delay of the iteration before it.
C12_OneInFlightStep ==
    (Triggering \/ Sweeping) =>
        /\ log.inFlight <= 1 /\ log'.inFlight <= 1
        /\ log'.readings > log.readings => log.inFlight = 0
        /\ log'.executorCalls > log.executorCalls => log.inFlight = 0
        /\ log'.iterations > log.iterations =>
              /\ log.inFlight = 0
              /\ log.iterations > 0 =>
                    /\ log.readCycle = log.iterations
                    /\ log.sleepsSinceRead = 1
                    /\ log.execSinceRead <= 1
                    /\ log.execSinceRead = 1 => log.lastExec \in {"ok", "failed"}

C12_AtMostOneInFlight == [][C12_OneInFlightStep]_vars

\* the second invocation of the executor waits for its confirmation, alone
C12_Witness ==
    /\ Triggering
    /\ pc = "confirm"
    /\ log.executorCalls = 2
    /\ log.inFlight = 1

\* C13: in auto-trigger mode, when every call returns or throws, every
\* capacity reading is followed by a further capacity reading unless the
\* balance check ended the process: so after every reading, after every
\* successful trigger and after every failed trigger (within the MaxCycles
\* iterations explored).  The count of readings goes up by one at a time, so
\* a further reading is a change of its parity.
C13_ContinuousOperation ==
    \A parity \in {0, 1} :
        (/\ Triggering /\ pc \notin {"main", "exited"}
         /\ log.readings < MaxCycles
         /\ log.readings % 2 = parity)
            ~> (log.readings % 2 = 1 - parity \/ log.breachCycle > 0)

\* a reading has been taken after a failed trigger that followed a
\* successful one
C13_Witness ==
    /\ Triggering
    /\ pc \in {"compare", "showBalance"}
    /\ log.readCycle = log.iterations
    /\ log.execCycle = log.iterations - 1
    /\ log.lastExec = "failed"
    /\ env.RECIPIENT_ETH_ADDRESS
    /\ transactionCount >= 2

\* C14: in auto-trigger mode a process ended by the balance check has exit
\* status 0; a process ended by a startup or configuration error has exit
\* status 1, so the two are told apart by the status.
C14_SafetyFloorExitStatus ==
    (Triggering /\ pc = "exited") =>
        /\ exitCode \in {0, 1}
        /\ exitCode = 0 <=> log.breachCycle > 0
        /\ exitCode = 1 <=> (log.iterations = 0 /\ (~env.PVK \/ ~env.THRESHOLD_TOKENS.set))

\* the tenth cycle's balance check read a balance below the floor, in a run
\* without triggers, and the process has ended with status 0
C14_Witness ==
    /\ Triggering
    /\ pc = "exited"
    /\ exitCode = 0
    /\ cycleCount = BalanceCheckEvery
    /\ ~log.balanceReadFailed
    /\ BigLt(log.breachBalance.m, FloorUnits)
    /\ log.executorCalls = 0

\* C15: with THRESHOLD_TOKENS not set, auto-trigger runs, with a threshold of
\* 10000 tokens, that is 10000 * 10^8 units.
C15_DefaultThreshold ==
    (Triggering /\ env.PVK /\ ~env.THRESHOLD_TOKENS.set /\ pc # "main") =>
        /\ pc # "exited"
        /\ THRESHOLD = DblOfBig(BigMulPow10(BigFromNat(10000), 8))

\* what the decimal numerals of the amounts read as
ParsedAmounts ==
    [a \in {AmountTable[x] : x \in DOMAIN AmountTable} |-> DblOfRatio(a.digits, a.frac)]

\* C16: every executor invocation of auto-trigger mode is given the amount
\* THRESHOLD, whatever the capacity read: the amount string reads as THRESHOLD
\* and is the same for invocations that follow different capacities.
C16_AmountIsThreshold ==
    (Triggering /\ log.amountsSent > 0) =>
        /\ ParsedAmounts[log.amount] = THRESHOLD
        /\ log.amount = log.firstAmount

\* a second invocation follows a capacity other than that of the first, with
\* the same amount, 2000 * 10^8
C16_Witness ==
    /\ Triggering
    /\ pc = "build"
    /\ log.amountsSent >= 2
    /\ capacity # log.firstCapacity
    /\ log.amount = log.firstAmount
    /\ log.amount = [digits |-> BigMulPow10(BigFromNat(2000), 8), frac |-> 0]

\* C17: the token sweep starts a transfer for a balance reading if and only
\* if the balance read is at least 300 * 10^8 units; it calls transfer at most
\* once per reading, with the whole balance read as the amount; the next
\* balance reading comes only after the transfer is confirmed or has failed.
C17_SweepTransfer ==
    (Sweeping /\ log.lastRead # "none") =>
        LET due == log.lastRead = "ok" /\ BigLeq(BigMulPow10(BigFromNat(300), 8), balance)
        IN  /\ log.execSinceRead = (IF due THEN 1 ELSE 0)
            /\ ~due => pc \in {"sweepSleep", "balanceOf"}
            /\ log.transfers <= log.executorCalls
            /\ log.inFlight = (IF pc \in {"getFeeData", "estimateGas", "transfer", "txWait"}
                               THEN 1 ELSE 0)
            /\ (pc = "txWait" \/ (pc = "sweepSleep" /\ due /\ log.lastExec = "ok")) =>
                  log.transferAmount = balance
            /\ pc = "balanceOf" =>
                  /\ log.sleepsSinceRead = 1
                  /\ due => log.lastExec \in {"ok", "failed"}

\* the next reading is due after a confirmed transfer of a balance above the
\* minimum, all of it
C17_Witness ==
    /\ Sweeping
    /\ pc = "balanceOf"
    /\ log.lastExec = "ok"
    /\ log.execSinceRead = 1
    /\ log.transferAmount = balance
    /\ balance = BigAddSmall(BigMulPow10(BigFromNat(300), 8), 1)

\* C18: wait mode, when every read returns, ends within its budget: at most
\* maxAttempts = maxWaitMinutes * 60 / 5 readings and at most maxAttempts - 1
\* delays of 5 seconds; it delays only after an unavailable reading that is
\* not the last attempt, and never reads again after an available reading.
C18_WithinBudget ==
    Waiting =>
        /\ maxAttempts = (ArgOr(args.arg, 10) * 60) \div 5
        /\ log.readings <= maxAttempts
        /\ log.sleeps <= maxAttempts - 1
        /\ log.sleeps > 0 => log.lastDelay = 5000
        /\ log.sleeps = (IF pc = "waitRead" \/ log.readings = 0 THEN log.readings
                         ELSE log.readings - 1)
        /\ pc = "waitSleep" =>
              (~hasCapacity /\ log.readings < maxAttempts /\ log.sleepsSinceRead = 0)
        /\ log.availableSeen > 0 => (pc = "exited" /\ log.availableSeen = 1 /\ hasCapacity)

C18_WaitTerminates ==
    /\ []C18_WithinBudget
    /\ Waiting ~> (pc = "exited")

\* wait mode has ended unavailable after all its readings and one delay fewer
C18_Witness ==
    /\ Waiting
    /\ pc = "exited"
    /\ exitCode = 1
    /\ log.readings = maxAttempts
    /\ log.sleeps = maxAttempts - 1
    /\ log.lastDelay = 5000

\* C19: in auto-trigger mode cycleCount goes up by one at the start of every
\* iteration, whatever the outcome of the iteration before; the balance is
\* checked against the floor in exactly the iterations whose cycleCount is a
\* multiple of 10, and in no other iteration does a balance check come before
\* the capacity reading or the trigger.
C19_SafetyCheckCadence ==
    (prog = "auto-transaction-trigger" /\ pc # "main") =>
        /\ cycleCount = log.iterations
        /\ pc = "checkBalance" => (cycleCount > 0 /\ cycleCount % 10 = 0)
        /\ pc \in {"checkRateLimit", "showBalance", "compare", "executeTransaction",
                    "build", "submit", "confirm", "sleep"} =>
              (log.checkCycle = cycleCount <=> cycleCount % 10 = 0)
        /\ log.balanceChecks = (IF pc = "checkBalance" THEN (cycleCount \div 10) - 1
                                ELSE cycleCount \div 10)

\* the eleventh cycle reads the capacity with no balance check of its own,
\* after the tenth cycle's check and after an iteration whose trigger failed
C19_Witness ==
    /\ prog = "auto-transaction-trigger"
    /\ pc = "checkRateLimit"
    /\ cycleCount = 11
    /\ log.balanceChecks = 1
    /\ log.checkCycle = 10
    /\ log.lastExec = "failed"

\* C20: the balance check ends the process exactly when the balance read is
\* below 1000 * 10^8 units; after a check that read exactly 1000 * 10^8 the
\* cycle goes on to the capacity reading.
C20_SafetyFloorBoundary ==
    (Triggering /\ log.breachCycle > 0 /\ ~log.balanceReadFailed) =>
        BigLt(log.breachBalance.m, BigMulPow10(BigFromNat(1000), 8))


\* C21: cut tracking of the monitor: a reading produces a cut exactly when an
\* earlier reading exists and the capacity read is below the capacity of that
\* earlier reading, the cut is then the earlier capacity minus the new one,
\* and the reading leaves previousCapacity at the capacity read.  The cut
\* changes nothing else: the counters follow the availability alone, the
\* reading is followed by the delay of intervalSeconds and the delay by the
\* next reading, with or without a cut.
C21_CutStep ==
    /\ (Monitoring /\ TracksCut /\ log'.readings = log.readings + 1) =>
          LET lower == log.readings > 0 /\ ~DblGeq(capacity', capacity)
              avail == ~DblLeq(capacity', DblZero)
          IN  /\ parkingCut'.set <=> lower
              /\ lower => /\ parkingCut'.value.k = 0
                          /\ BigSub(capacity.m, parkingCut'.value.m) = capacity'.m
                          /\ parkingCut'.value # DblZero
              /\ previousCapacity' = Some(capacity')
              /\ consecutiveAvailable' = (IF avail THEN consecutiveAvailable + 1 ELSE 0)
              /\ consecutiveBlocked' = (IF avail THEN 0 ELSE consecutiveBlocked + 1)
              /\ pc' = "monitorSleep"
              /\ exitCode' = exitCode
    /\ (Monitoring /\ TracksCut /\ pc = "monitorSleep") =>
          /\ pc' = "monitorRead"
          /\ log'.lastDelay = intervalSeconds * 1000
          /\ log'.sleepsSinceRead = 1
          /\ UNCHANGED <<capacity, consecutiveAvailable, consecutiveBlocked,
                         previousCapacity, parkingCut>>

C21_DeltaTracking == [][C21_CutStep]_vars

\* a reading one unit below the earlier one gave a cut of one unit in the
\* middle of a run of available readings, and the delay that followed is over
C21_Witness ==
    /\ prog = "part_001"
    /\ pc = "monitorRead"
    /\ parkingCut = Some(DblOfBig(BigFromNat(1)))
    /\ previousCapacity = Some(capacity)
    /\ consecutiveAvailable = 2
    /\ log.lastDelay = intervalSeconds * 1000


\* C22: in the token sweep an error thrown by any of the five awaits of an
\* iteration (balance read, fee data, gas estimate, transfer, receipt) ends
\* the iteration without ending the process: the loop goes to its delay, and
\* on the error path as on the success path exactly one delay of 3000 ms lies
\* between one balance reading and the next.  Once the loop has started the
\* process never exits.
C22_SweepErrorIsolation ==
    Sweeping =>
        /\ pc = "exited" => (log.iterations = 0 /\ exitCode = 1)
        /\ log.iterations > 0 => exitCode = -1
        /\ log.errorAt # "none" =>
              /\ pc \in {"sweepSleep", "balanceOf"}
              /\ log.errorAt = "balanceOf" <=> log.lastRead = "failed"
              /\ log.errorAt # "balanceOf" => (log.lastExec = "failed" /\ log.inFlight = 0)
        /\ pc = "sweepSleep" => log.sleepsSinceRead = 0
        /\ pc \in {"balanceOf", "sweepSleep"} =>
              log.sleeps = (IF pc = "balanceOf" THEN log.readings ELSE log.readings - 1)
        /\ (pc = "balanceOf" /\ log.readings > 0) =>
              (log.sleepsSinceRead = 1 /\ log.lastDelay = 3000)

\* the second iteration called transfer and failed awaiting the receipt; its
\* delay was taken and the third balance reading is due
C22_Witness ==
    /\ Sweeping
    /\ pc = "balanceOf"
    /\ log.errorAt = "txWait"
    /\ log.transfers = 1
    /\ log.readings = 2
    /\ log.sleeps = 2
    /\ log.sleepsSinceRead = 1
    /\ exitCode = -1


\* C23: monitor mode: both counters are 0 exactly as long as no reading has
\* been taken; from the first reading on exactly one of them is not 0: the
\* counter of the availability of the last reading, and it is the number of
\* readings of the current run of equal availability.
C23_StreakInvariant ==
    Monitoring =>
        /\ (consecutiveAvailable = 0 /\ consecutiveBlocked = 0) <=> log.readings = 0
        /\ log.readings > 0 =>
              /\ (consecutiveAvailable = 0) # (consecutiveBlocked = 0)
              /\ log.runLength >= 1
              /\ hasCapacity = log.runAvailable
              /\ consecutiveAvailable = (IF log.runAvailable THEN log.runLength ELSE 0)
              /\ consecutiveBlocked = (IF log.runAvailable THEN 0 ELSE log.runLength)

\* two available readings in a row, after a run of two unavailable ones
C23_Witness ==
    /\ Monitoring
    /\ pc = "monitorSleep"
    /\ consecutiveAvailable = 2
    /\ consecutiveBlocked = 0
    /\ log.runAvailable
    /\ log.runLength = 2
    /\ log.prevRunLength = 2


\* C24: a balance check whose read fails sees the balance 0: the process
\* ends in that cycle, a multiple of 10, with status 0, before the cycle's
\* capacity reading and trigger, as after a balance read below the floor.
C24_FailedBalanceRead ==
    (prog = "auto-transaction-trigger" /\ log.lastBalanceRead = "failed") =>
        /\ pc = "exited"
        /\ exitCode = 0
        /\ log.breachBalance = DblZero
        /\ log.breachCycle = cycleCount
        /\ log.checkCycle = cycleCount
        /\ cycleCount % 10 = 0
        /\ log.readCycle < cycleCount
        /\ log.execCycle < cycleCount

\* the balance read of the tenth cycle failed after nine cycles with a
\* trigger among them, and the process has ended with status 0
C24_Witness ==
    /\ prog = "auto-transaction-trigger"
    /\ log.lastBalanceRead = "failed"
    /\ pc = "exited"
    /\ exitCode = 0
    /\ cycleCount = 10
    /\ log.readings = 9
    /\ transactionCount >= 1


\* C25: the monitor with cut tracking takes a failed read for a reading of
\* capacity 0: it leaves previousCapacity at 0, sets consecutiveAvailable to 0
\* and adds one to consecutiveBlocked, and when the reading before it had a
\* capacity c > 0 its cut is c.  The reading that comes after a failed read
\* produces no cut, whatever it reads.
C25_FailedReadStep ==
    (Monitoring /\ TracksCut /\ log'.readings = log.readings + 1) =>
        /\ log'.lastRead = "failed" =>
              /\ capacity' = DblZero
              /\ ~hasCapacity'
              /\ previousCapacity' = Some(DblZero)
              /\ consecutiveAvailable' = 0
              /\ consecutiveBlocked' = consecutiveBlocked + 1
              /\ (log.readings > 0 /\ capacity # DblZero) => parkingCut' = Some(capacity)
              /\ (log.readings = 0 \/ capacity = DblZero) => ~parkingCut'.set
        /\ log.lastRead = "failed" => ~parkingCut'.set

C25_FailedReadRecorded == [][C25_FailedReadStep]_vars

\* a read has failed after two readings of 2000 * 10^8 units: the cut is the
\* whole of that capacity and the run of available readings is over
C25_Witness ==
    /\ prog = "part_001"
    /\ pc = "monitorSleep"
    /\ log.lastRead = "failed"
    /\ parkingCut = Some(DblOfBig(BigMulPow10(BigFromNat(2000), 8)))
    /\ previousCapacity = Some(DblZero)
    /\ consecutiveAvailable = 0
    /\ consecutiveBlocked = 1
    /\ log.prevRunLength = 2

=============================================================================
